---------------------------- MODULE Spec2Model ----------------------------
(***************************************************************************)
(* A model of generate_protein_products_fixed.py: a linear script that     *)
(* builds 400 product rows from pseudo-random draws, puts them in a table  *)
(* restricted to a declared column list, writes the table as CSV and       *)
(* prints a summary.                                                       *)
(*                                                                         *)
(* Python values are carried with their type: PyInt(n) is an int,          *)
(* PyStr(s) a str, PyFloat(t) a float held in tenths (the only float of    *)
(* the script is a value rounded to one decimal), NaN the table's          *)
(* missing-value placeholder.  Text is TLA+ strings, built with \o as the  *)
(* f-strings build it.  Glyphs outside ASCII in the printed messages are   *)
(* transliterated.                                                         *)
(***************************************************************************)
EXTENDS Integers, Sequences, FiniteSets, TLC

VARIABLES
    rng,        \* state of the random module's generator
    i,          \* loop variable of `for i in range(1, 401)`
    products,   \* the list `products`
    df,         \* the DataFrame `df` (NoFrame before line 92)
    disk,       \* the file protein_products_400_complete.csv on disk
    pending,    \* the lines to_csv has formatted and not yet written
    stdout,     \* what has been printed so far
    step,       \* index of the next print statement of lines 98-110
    pc          \* position of the script

vars == <<rng, i, products, df, disk, pending, stdout, step, pc>>

(***************************************************************************)
(* Bounds of the model.                                                    *)
(***************************************************************************)
\* The generator is seeded from the operating system at import; the model
\* explores the seeds 0..MaxSeed.
MaxSeed == 2

(***************************************************************************)
(* Sample values, lines 5-16.                                              *)
(***************************************************************************)
brands == <<"Optimus", "Health Supp", "GNC", "MuscleBlaze", "Ultimate Nutrition", "ON", "Labrada", "Dymatize">>
manufacturers == <<"Optimus Inc", "GNC Ltd", "MuscleBlaze Pvt", "Ultimate Nutrition Co", "Dymatize India", "ON Labs">>
countries == <<"India", "USA", "Germany", "UK", "Canada">>
flavors == <<"Chocolate", "Vanilla", "Strawberry", "Mango", "Banana", "Cookies & Cream", "Unflavored">>
certifications == <<"FSSAI Approved", "GMP Certified", "ISO 22000", "FDA Approved", "Halal Certified">>
dietary_info == <<"vegetarian", "vegan", "non-GMO", "gluten-free", "organic">>
skin_types == <<"normal", "dry", "oily", "combination", "sensitive">>
hair_types == <<"straight", "wavy", "curly", "fine", "thick">>
allergens == <<"nuts", "dairy", "gluten", "soy">>
seasons == <<"spring", "summer", "fall", "winter", "all-season">>
genders == <<"men", "women", "unisex">>
age_groups == <<"adult", "teen", "senior", "all-ages">>

\* Variants of the declared list, for checking that the formulas below
\* depend on it: one without its last name, one with a name no row has.
all_columns_short ==
    <<"name", "description", "price", "originalPrice", "images", "category", "subcategory", "brand", "stock",
      "rating", "reviewCount", "tags", "features", "ingredients", "isNewProduct", "isBestseller", "isFeatured",
      "sku", "barcode", "color", "size", "material", "scent", "gender", "ageGroup", "manufacturer",
      "countryOfOrigin", "allergens", "dietaryInfo", "skinType", "hairType", "careInstructions",
      "certifications", "keywords", "metaTitle", "metaDescription", "minOrderQuantity", "maxOrderQuantity",
      "season">>

all_columns_extra == all_columns_short \o <<"spf", "weight">>

\* Lines 19-26: the declared column list, in its declared order.
all_columns ==
    <<"name", "description", "price", "originalPrice", "images", "category", "subcategory", "brand", "stock",
      "rating", "reviewCount", "tags", "features", "ingredients", "isNewProduct", "isBestseller", "isFeatured",
      "sku", "barcode", "color", "size", "material", "scent", "gender", "ageGroup", "manufacturer",
      "countryOfOrigin", "allergens", "dietaryInfo", "skinType", "hairType", "careInstructions",
      "certifications", "keywords", "metaTitle", "metaDescription", "minOrderQuantity", "maxOrderQuantity",
      "season", "spf">>

\* Line 30: range(1, 401) ends at N.
N == 400

(***************************************************************************)
(* Python values.                                                          *)
(***************************************************************************)
PyInt(n) == [int |-> n]
PyStr(s) == [str |-> s]
PyFloat(t) == [tenths |-> t]
NaN == [nan |-> TRUE]

IsInt(v) == DOMAIN v = {"int"}
IsStr(v) == DOMAIN v = {"str"}
IsFloat(v) == DOMAIN v = {"tenths"}
IsNaN(v) == DOMAIN v = {"nan"}

Range(s) == {s[k] : k \in 1..Len(s)}

\* str(n) of a non-negative int.
Str(n) == ToString(n)

\* Variant: the index without its padding.
Pad4Unpadded(n) == Str(n)

\* format(n, "04d"): zero-padded to a width of 4, never cut.

Pad4(n) ==
    IF n < 10 THEN "000" \o Str(n)
    ELSE IF n < 100 THEN "00" \o Str(n)
    ELSE IF n < 1000 THEN "0" \o Str(n)
    ELSE Str(n)

\* The low half of a 12-digit number, as its 6 digits.
Pad6(n) ==
    IF n < 10 THEN "00000" \o Str(n)
    ELSE IF n < 100 THEN "0000" \o Str(n)
    ELSE IF n < 1000 THEN "000" \o Str(n)
    ELSE IF n < 10000 THEN "00" \o Str(n)
    ELSE IF n < 100000 THEN "0" \o Str(n)
    ELSE Str(n)

(***************************************************************************)
(* The random module.  Its generator is a deterministic function of its    *)
(* state; a congruential generator stands for it.  Draw(r, n) is the       *)
(* output of the n-th draw made from state r.                              *)
(***************************************************************************)
Advance(r) == (1103 * r + 12345) % 1000003

RECURSIVE Draw(_, _)
Draw(r, n) == IF n = 0 THEN r ELSE Draw(Advance(r), n - 1)

\* random.randint(a, b): an integer of a..b.
randint(x, a, b) == a + (x % (b - a + 1))

\* random.choice(seq): a member of seq.
choice(x, seq) == seq[(x % Len(seq)) + 1]

\* random.uniform(a, b), in thousandths: a + (b - a) * random().
uniform(x, a, b) == a + (((b - a) * x) \div 1000003)

\* round(v, 1) of a value in thousandths, in tenths.
round1(v) == (v + 50) \div 100

(***************************************************************************)
(* The loop body, lines 31-87: the row of index idx built from generator   *)
(* state r.  The draws are numbered in the order the interpreter makes     *)
(* them: lines 31-41 first, then the dict display top to bottom.  A        *)
(* conditional expression draws its coin first and its value only when     *)
(* the coin came up True, so the number of draws varies with the coins.    *)
(***************************************************************************)
\* Variant: the cycle started at protien1.jpg.
image_num_zero_based(idx) == ((idx - 1) % 9) + 1

\* Line 44.
image_num(idx) == (idx % 9) + 1

\* Line 64.
sku(idx) == "PROT" \o Pad4(idx)

\* Variant: the draw taken off the price.
original_price_below(price, x) == price - randint(x, 200, 1000)

\* Line 32: original_price from price and the second draw.
original_price(price, x) == price + randint(x, 200, 1000)

\* Variant: a filler text in place of a member of the list.
optional_any_text(coin, x, seq) == IF coin THEN "n/a" ELSE ""

\* Lines 74, 76, 77: `random.choice(seq) if coin else ""`.
optional(coin, x, seq) == IF coin THEN choice(x, seq) ELSE ""

\* Variant: a flavor of its own in place of the row's.
description_other_flavor(idx, flavor) ==
    "High-quality Protein supplement " \o Str(idx)
        \o " ideal for muscle growth and recovery. " \o flavors[1]
        \o " flavor for gym and fitness enthusiasts."

\* Line 48; flavor is the value bound at line 39.
description(idx, flavor) ==
    "High-quality Protein supplement " \o Str(idx)
        \o " ideal for muscle growth and recovery. " \o flavor
        \o " flavor for gym and fitness enthusiasts."

\* Line 59.
features(flavor) ==
    "Supports muscle growth,Boosts recovery,High Protein content," \o flavor \o " flavor"

\* Line 81.
metaTitle(idx, brand, flavor) ==
    brand \o " Protein Supplement " \o Str(idx) \o " - " \o flavor

\* Line 82.
metaDescription(idx, brand, flavor) ==
    "Buy " \o brand \o " " \o flavor \o " Protein supplement " \o Str(idx)
        \o " - premium protein for strength, muscle growth, and fitness."

\* Variant: the spelling the script replaced.
category_misspelled == "Protien"

\* Line 52.
category == "Proteins"

Bool == <<TRUE, FALSE>>
BoolText == <<"TRUE", "FALSE">>

RowDraws(idx, r) ==
    LET d(n) == Draw(r, n)
        price == randint(d(1), 999, 4999)
        stock == randint(d(3), 50, 300)
        rating == round1(uniform(d(4), 3500, 5000))
        reviews == randint(d(5), 50, 1000)
        brand == choice(d(6), brands)
        manufacturer == choice(d(7), manufacturers)
        country == choice(d(8), countries)
        flavor == choice(d(9), flavors)
        cert == choice(d(10), certifications)
        diet == choice(d(11), dietary_info)
        \* randint(100000000000, 999999999999) is one draw of a 12-digit
        \* number; it is carried as its high and low 6 digits.
        barcodeHi == randint(d(15), 100000, 999999)
        barcodeLo == randint(d(16), 0, 999999)
        coinA == choice(d(20), Bool)
        nA == 20 + (IF coinA THEN 1 ELSE 0)
        coinS == choice(d(nA + 1), Bool)
        nS == nA + 1 + (IF coinS THEN 1 ELSE 0)
        coinH == choice(d(nS + 1), Bool)
        nH == nS + 1 + (IF coinH THEN 1 ELSE 0)
    IN  [ used |-> nH + 2,
          row |->
            [ name |-> PyStr("Protein Supplement " \o Str(idx)),
              description |-> PyStr(description(idx, flavor)),
              price |-> PyInt(price),
              originalPrice |-> PyInt(original_price(price, d(2))),
              images |-> PyStr("uploads/products/protien" \o Str(image_num(idx)) \o ".jpg"),
              category |-> PyStr(category),
              subcategory |-> PyStr("Health Supplement"),
              brand |-> PyStr(brand),
              stock |-> PyInt(stock),
              rating |-> PyFloat(rating),
              reviewCount |-> PyInt(reviews),
              tags |-> PyStr("Protein,supplement,gym,fitness,muscle"),
              features |-> PyStr(features(flavor)),
              ingredients |-> PyStr("Whey Protein Concentrate,Whey Protein Isolate,BCAAs,Digestive Enzymes"),
              isNewProduct |-> PyStr(choice(d(12), BoolText)),
              isBestseller |-> PyStr(choice(d(13), BoolText)),
              isFeatured |-> PyStr(choice(d(14), BoolText)),
              sku |-> PyStr(sku(idx)),
              barcode |-> PyStr(Str(barcodeHi) \o Pad6(barcodeLo)),
              color |-> PyStr("N/A"),
              size |-> PyStr(Str(randint(d(17), 500, 2000)) \o "g"),
              material |-> PyStr("Plastic Jar"),
              scent |-> PyStr(flavor),
              gender |-> PyStr(choice(d(18), genders)),
              ageGroup |-> PyStr(choice(d(19), age_groups)),
              manufacturer |-> PyStr(manufacturer),
              countryOfOrigin |-> PyStr(country),
              allergens |-> PyStr(optional(coinA, d(nA), allergens)),
              dietaryInfo |-> PyStr(diet),
              skinType |-> PyStr(optional(coinS, d(nS), skin_types)),
              hairType |-> PyStr(optional(coinH, d(nH), hair_types)),
              careInstructions |-> PyStr("Store in a cool dry place,Keep away from moisture"),
              certifications |-> PyStr(cert),
              keywords |-> PyStr("Protein,health,supplement,gym,fitness,muscle"),
              metaTitle |-> PyStr(metaTitle(idx, brand, flavor)),
              metaDescription |-> PyStr(metaDescription(idx, brand, flavor)),
              minOrderQuantity |-> PyInt(1),
              maxOrderQuantity |-> PyInt(randint(d(nH + 1), 5, 20)),
              season |-> PyStr(choice(d(nH + 2), seasons)),
              spf |-> PyStr("") ] ]

(***************************************************************************)
(* Line 92: pd.DataFrame(products, columns=all_columns).  The table has    *)
(* the given columns in the given order; a row lacking a column's key      *)
(* gets NaN there, and a key outside the columns is left out.              *)
(***************************************************************************)
NoFrame == [columns |-> <<>>, data |-> <<>>]

DataFrame(rows, columns) ==
    [ columns |-> columns,
      data |-> [k \in 1..Len(rows) |->
                  [c \in 1..Len(columns) |->
                     IF columns[c] \in DOMAIN rows[k]
                     THEN rows[k][columns[c]]
                     ELSE NaN]] ]

\* df[cols]: the table restricted to cols, which are columns of it.
Select(frame, cols) ==
    LET at(name) == CHOOSE c \in 1..Len(frame.columns) : frame.columns[c] = name
    IN  [ columns |-> cols,
          data |-> [k \in 1..Len(frame.data) |->
                      [c \in 1..Len(cols) |-> frame.data[k][at(cols[c])]]] ]

\* df.head(n): the first n rows, or all of them when there are fewer.
head(frame, n) ==
    [ columns |-> frame.columns,
      data |-> SubSeq(frame.data, 1, IF Len(frame.data) < n THEN Len(frame.data) ELSE n) ]

(***************************************************************************)
(* Text helpers.                                                           *)
(***************************************************************************)
Char(s, p) == SubSeq(s, p, p)

Has(s, chars) == \E p \in 1..Len(s) : Char(s, p) \in chars

\* sep.join(cells).
RECURSIVE JoinRange(_, _, _, _)
JoinRange(cells, sep, lo, hi) ==
    IF lo > hi THEN ""
    ELSE IF lo = hi THEN cells[lo]
    ELSE LET mid == (lo + hi) \div 2
         IN  JoinRange(cells, sep, lo, mid) \o sep \o JoinRange(cells, sep, mid + 1, hi)

Join(cells, sep) == JoinRange(cells, sep, 1, Len(cells))

RECURSIVE Flatten(_, _, _)
Flatten(seqs, lo, hi) ==
    IF lo > hi THEN <<>>
    ELSE IF lo = hi THEN seqs[lo]
    ELSE LET mid == (lo + hi) \div 2
         IN  Flatten(seqs, lo, mid) \o Flatten(seqs, mid + 1, hi)

RECURSIVE Spaces(_)
Spaces(n) == IF n <= 0 THEN "" ELSE " " \o Spaces(n - 1)

\* str.rjust(w).
rjust(s, w) == Spaces(w - Len(s)) \o s

\* The text split at its line feeds.
SplitLines(text) ==
    LET nl == {p \in 1..Len(text) : Char(text, p) = "\n"}
        n == Cardinality(nl)
        at(j) == IF j = 0 THEN 0
                 ELSE IF j = n + 1 THEN Len(text) + 1
                 ELSE CHOOSE p \in nl : Cardinality({q \in nl : q <= p}) = j
    IN  [j \in 1..(n + 1) |-> SubSeq(text, at(j - 1) + 1, at(j) - 1)]

(***************************************************************************)
(* Line 96: df.to_csv(output_file, index=False).  The writer's defaults:   *)
(* a header record of the column names, then one record per row; cells     *)
(* separated by commas; NaN written as the empty text; a text cell quoted  *)
(* only when it holds a comma, a quote or a line break, its quotes         *)
(* doubled; each record ended by a line feed.                              *)
(***************************************************************************)
\* str() of a value, as the writer formats it.
Text(v) ==
    IF IsNaN(v) THEN ""
    ELSE IF IsInt(v) THEN Str(v.int)
    ELSE IF IsFloat(v) THEN Str(v.tenths \div 10) \o "." \o Str(v.tenths % 10)
    ELSE v.str

\* Every quote of s doubled (s is halved at each step to keep the
\* evaluation shallow).
RECURSIVE DoubleQuotes(_)
DoubleQuotes(s) ==
    IF Len(s) = 0 THEN ""
    ELSE IF Len(s) = 1 THEN (IF s = "\"" THEN "\"\"" ELSE s)
    ELSE LET mid == Len(s) \div 2
         IN  DoubleQuotes(SubSeq(s, 1, mid)) \o DoubleQuotes(SubSeq(s, mid + 1, Len(s)))

QuoteMinimal(s) ==
    IF Has(s, {",", "\"", "\n", "\r"}) THEN "\"" \o DoubleQuotes(s) \o "\"" ELSE s

CsvRecord(cells) ==
    Join([c \in 1..Len(cells) |-> QuoteMinimal(cells[c])], ",")

\* The lines of the file to_csv writes for the table.
to_csv(frame) ==
    SplitLines(CsvRecord(frame.columns))
      \o Flatten([k \in 1..Len(frame.data) |->
                    SplitLines(CsvRecord([c \in 1..Len(frame.columns) |->
                                             Text(frame.data[k][c])]))],
                 1, Len(frame.data))

(***************************************************************************)
(* Lines 98-110: the printed summary.  to_string(index=False) sets each    *)
(* column to the width of its longest cell, header included, right-        *)
(* justified, columns separated by a space, one line per row.              *)
(***************************************************************************)
output_file == "protein_products_400_complete.csv"

PreviewColumns == <<"name", "category", "images", "price", "brand">>

to_string(frame) ==
    LET nc == Len(frame.columns)
        cell(k, c) == Text(frame.data[k][c])
        longest(c) == CHOOSE w \in {Len(frame.columns[c])} \cup {Len(cell(k, c)) : k \in 1..Len(frame.data)} :
                        \A k \in 1..Len(frame.data) : Len(cell(k, c)) <= w /\ Len(frame.columns[c]) <= w
        line(k) == Join([c \in 1..nc |->
                           rjust(IF k = 0 THEN frame.columns[c] ELSE cell(k, c), longest(c))], " ")
    IN  Join([k \in 1..(Len(frame.data) + 1) |-> line(k - 1)], "\n")

\* What the print statement number n writes.
Printed(n) ==
    CASE n = 1 -> output_file \o " generated successfully!"
      [] n = 2 -> "Total products: " \o Str(Len(df.data))
      [] n = 3 -> "All " \o Str(Len(all_columns)) \o " CSV columns included"
      [] n = 4 -> "Key fixes applied:"
      [] n = 5 -> "   - Category: 'Protien' -> 'Proteins'"
      [] n = 6 -> "   - Spelling: 'Protien' -> 'Protein' throughout"
      [] n = 7 -> "   - All required CSV fields included"
      [] n = 8 -> "   - Using existing image paths (protien1.jpg to protien9.jpg)"
      [] n = 9 -> "   - Proper data types and validation-ready format"
      [] n = 10 -> "\nSample data preview:"
      [] n = 11 -> to_string(head(Select(df, PreviewColumns), 3))

\* The number of print statements.
NPrints == 11

(***************************************************************************)
(* The script.                                                             *)
(***************************************************************************)
\* The output path before the run: no file, or a file of an earlier run.
Absent == [exists |-> FALSE, lines |-> <<>>]
Stale == [exists |-> TRUE, lines |-> <<"name,price", "Old Product,1">>]

Init ==
    /\ rng \in 0..MaxSeed
    /\ i = 0
    /\ products = <<>>
    /\ df = NoFrame
    /\ disk \in {Absent, Stale}
    /\ pending = <<>>
    /\ stdout = <<>>
    /\ step = 1
    /\ pc = "loop"

\* Variant: the row appended twice.
GenerateAppendingTwice ==
    /\ pc = "loop"
    /\ i < N
    /\ LET g == RowDraws(i + 1, rng)
       IN  /\ products' = Append(Append(products, g.row), g.row)
           /\ rng' = Draw(rng, g.used)
    /\ i' = i + 1
    /\ UNCHANGED <<df, disk, pending, stdout, step, pc>>

\* Lines 30-89: one iteration of `for i in range(1, 401)`.
Generate ==
    /\ pc = "loop"
    /\ i < N
    /\ LET g == RowDraws(i + 1, rng)
       IN  /\ products' = Append(products, g.row)
           /\ rng' = Draw(rng, g.used)
    /\ i' = i + 1
    /\ UNCHANGED <<df, disk, pending, stdout, step, pc>>

\* Line 92, reached when the range is exhausted.
BuildFrame ==
    /\ pc = "loop"
    /\ i >= N
    /\ df' = DataFrame(products, all_columns)
    /\ pc' = "write"
    /\ UNCHANGED <<rng, i, products, disk, pending, stdout, step>>

\* Line 96, first half: to_csv opens the path for writing, which empties
\* the file or creates it, and formats the table.
OpenFile ==
    /\ pc = "write"
    /\ disk' = [exists |-> TRUE, lines |-> <<>>]
    /\ pending' = to_csv(df)
    /\ pc' = "writing"
    /\ UNCHANGED <<rng, i, products, df, stdout, step>>

\* Line 96 raises at the open (the directory is not writable): the path
\* stays as it was.  The exception is not caught: the process ends, and
\* with it everything it held in memory.
OpenFault ==
    /\ pc = "write"
    /\ pc' = "aborted"
    /\ products' = <<>>
    /\ df' = NoFrame
    /\ UNCHANGED <<rng, i, disk, pending, stdout, step>>

\* Line 96, second half: every line is written and the file is closed.
WriteCsv ==
    /\ pc = "writing"
    /\ disk' = [exists |-> TRUE, lines |-> pending]
    /\ pending' = <<>>
    /\ pc' = "report"
    /\ UNCHANGED <<rng, i, products, df, stdout, step>>

\* Line 96 raises part-way (the device is full): the lines written so far
\* stay in the file, nothing cleans them up, and the process ends.
WriteFault ==
    /\ pc = "writing"
    /\ \E k \in 0..(Len(pending) - 1) :
          disk' = [exists |-> TRUE, lines |-> SubSeq(pending, 1, k)]
    /\ pending' = <<>>
    /\ products' = <<>>
    /\ df' = NoFrame
    /\ pc' = "aborted"
    /\ UNCHANGED <<rng, i, stdout, step>>

\* Variant: the print statements placed ahead of the write.
PrintLineBeforeWrite ==
    /\ pc \in {"loop", "report"}
    /\ step <= NPrints
    /\ stdout' = Append(stdout, Printed(step))
    /\ step' = step + 1
    /\ IF step = NPrints /\ pc = "report"
       THEN pc' = "done" /\ products' = <<>> /\ df' = NoFrame
       ELSE UNCHANGED <<pc, products, df>>
    /\ UNCHANGED <<rng, i, disk, pending>>

\* Lines 98-110: the next print statement; after the last one the script
\* ends.
PrintLine ==
    /\ pc = "report"
    /\ step <= NPrints
    /\ stdout' = Append(stdout, Printed(step))
    /\ step' = step + 1
    /\ IF step = NPrints
       THEN pc' = "done" /\ products' = <<>> /\ df' = NoFrame
       ELSE pc' = "report" /\ UNCHANGED <<products, df>>
    /\ UNCHANGED <<rng, i, disk, pending>>

\* A print statement raises (the stream is closed, or cannot encode the
\* text): nothing is written by it and the process ends.
PrintFault ==
    /\ pc = "report"
    /\ step <= NPrints
    /\ pc' = "aborted"
    /\ products' = <<>>
    /\ df' = NoFrame
    /\ UNCHANGED <<rng, i, disk, pending, stdout, step>>

Next ==
    \/ Generate
    \/ BuildFrame
    \/ OpenFile
    \/ OpenFault
    \/ WriteCsv
    \/ WriteFault
    \/ PrintLine
    \/ PrintFault

Spec == Init /\ [][Next]_vars

(***************************************************************************)
(* Reading the file back, as a consumer of the CSV does: a comma separates *)
(* two fields when an even number of quotes precedes it.                   *)
(***************************************************************************)
Separators(line) ==
    LET quotes == {p \in 1..Len(line) : Char(line, p) = "\""}
        commas == {p \in 1..Len(line) : Char(line, p) = ","}
    IN  {p \in commas : Cardinality({q \in quotes : q < p}) % 2 = 0}

\* The number of fields of the line.
CsvWidth(line) == Cardinality(Separators(line)) + 1

\* The j-th field of the line, its enclosing quotes removed.  (No field of
\* this file holds a quote of its own; one that did is left doubled.)
CsvField(line, j) ==
    LET sep == Separators(line)
        n == Cardinality(sep)
        at(m) == IF m = 0 THEN 0
                 ELSE IF m = n + 1 THEN Len(line) + 1
                 ELSE CHOOSE p \in sep : Cardinality({q \in sep : q <= p}) = m
        raw == SubSeq(line, at(j - 1) + 1, at(j) - 1)
    IN  IF Len(raw) >= 2 /\ Char(raw, 1) = "\"" /\ Char(raw, Len(raw)) = "\""
        THEN SubSeq(raw, 2, Len(raw) - 1)
        ELSE raw

Digits == {"0", "1", "2", "3", "4", "5", "6", "7", "8", "9"}

DigitValue(c) == CHOOSE d \in 0..9 : Str(d) = c

\* The position of a column name in the declared list.
ColumnOf(name) == CHOOSE c \in 1..Len(all_columns) : all_columns[c] = name

\* to_csv has returned: the file is written and closed.
FileWritten == pc \in {"report", "done"}

\* The loop has run to its end and its rows are still in memory.
RowsComplete == pc \in {"write", "writing", "report"}

\* The header the bulk upload expects: the forty declared names in order.
DeclaredHeader ==
    "name,description,price,originalPrice,images,category,subcategory,brand,stock,"
      \o "rating,reviewCount,tags,features,ingredients,isNewProduct,isBestseller,isFeatured,"
      \o "sku,barcode,color,size,material,scent,gender,ageGroup,manufacturer,"
      \o "countryOfOrigin,allergens,dietaryInfo,skinType,hairType,careInstructions,"
      \o "certifications,keywords,metaTitle,metaDescription,minOrderQuantity,maxOrderQuantity,"
      \o "season,spf"

(***************************************************************************)
(* C1, as stated: the header line of the written file is the declared      *)
(* column list in its order, and that list has exactly 39 names.           *)
(***************************************************************************)
C1_HeaderHas39Columns ==
    FileWritten =>
        /\ disk.lines[1] = DeclaredHeader
        /\ CsvWidth(disk.lines[1]) = 39
        /\ Len(all_columns) = 39

(***************************************************************************)
(* C1, amended: on every run the header line of the written file is the    *)
(* declared column list in its declared order; the list has exactly 40     *)
(* names, and every data line has 40 fields.                               *)
(***************************************************************************)
C1_HeaderIsDeclaredList ==
    /\ pc = "loop" => Join(all_columns, ",") = DeclaredHeader /\ Len(all_columns) = 40
    /\ FileWritten =>
        /\ disk.lines[1] = DeclaredHeader
        /\ CsvWidth(disk.lines[1]) = 40
        /\ \A c \in 1..40 : CsvField(disk.lines[1], c) = all_columns[c]
        /\ \A k \in 2..Len(disk.lines) : CsvWidth(disk.lines[k]) = 40

C1_Witness ==
    /\ pc = "done"
    /\ disk.exists
    /\ Len(disk.lines) > 1
    /\ CsvField(disk.lines[1], 40) = "spf"

(***************************************************************************)
(* C2, as stated: the images field of record i is                          *)
(* "uploads/products/protien" + (((i-1) mod 9) + 1) + ".jpg".              *)
(***************************************************************************)
C2_ImageFromIndexMinusOne ==
    \A k \in 1..Len(products) :
        products[k].images.str =
            "uploads/products/protien" \o Str(((k - 1) % 9) + 1) \o ".jpg"

(***************************************************************************)
(* C2, amended: the images field of record i is                            *)
(* "uploads/products/protien" + ((i mod 9) + 1) + ".jpg", a number of 1..9 *)
(* (record 1 uses protien2.jpg, record 9 uses protien1.jpg).               *)
(***************************************************************************)
C2_ImageFromIndex ==
    \A k \in 1..Len(products) :
        /\ products[k].images.str =
              "uploads/products/protien" \o Str((k % 9) + 1) \o ".jpg"
        /\ \E n \in 1..9 :
              products[k].images.str = "uploads/products/protien" \o Str(n) \o ".jpg"
        /\ (k = 1 => products[k].images.str = "uploads/products/protien2.jpg")
        /\ (k = 9 => products[k].images.str = "uploads/products/protien1.jpg")

C2_Witness ==
    /\ Len(products) = N
    /\ products[8].images.str = "uploads/products/protien9.jpg"
    /\ products[9].images.str = "uploads/products/protien1.jpg"
    /\ products[N].images.str = "uploads/products/protien5.jpg"

\* One row per index in memory, one line per index in the file.
C3_OneLinePerIndex ==
    /\ Len(products) = (IF RowsComplete \/ pc = "loop" THEN i ELSE 0)
    /\ i <= N
    /\ (pc # "loop" => i = N)
    /\ (FileWritten =>
          /\ Len(disk.lines) = N + 1
          /\ Len(disk.lines) = 401
          /\ disk.lines[1] = DeclaredHeader
          /\ \A k \in 1..N :
                /\ CsvWidth(disk.lines[k + 1]) = Len(all_columns)
                /\ CsvField(disk.lines[k + 1], 1) = "Protein Supplement " \o Str(k))

\* Every step taken in the loop uses up one index of the range or leaves
\* the loop (the guards i < N and i >= N of its two steps leave no state
\* where it is stuck): with i <= N it takes at most N + 1 steps.
C3_LoopStep ==
    pc = "loop" =>
        \/ pc' = "loop" /\ i' = i + 1 /\ Len(products') = Len(products) + 1
        \/ pc' = "write" /\ i = N /\ products' = products

(***************************************************************************)
(* C3: the generation loop terminates (each of its steps uses up one index *)
(* of a finite range), one row is appended per index, and the written file *)
(* holds exactly N + 1 = 401 lines: the header, then one data line per     *)
(* index 1..400 in index order, none dropped, duplicated or split across   *)
(* lines.                                                                  *)
(***************************************************************************)
C3_LoopEndsAndFileHas401Lines == []C3_OneLinePerIndex /\ [][C3_LoopStep]_vars

C3_Witness ==
    /\ pc = "done"
    /\ Len(disk.lines) = 401
    /\ CsvField(disk.lines[401], 1) = "Protein Supplement 400"

\* The text is "PROT" and the four digits of k.
SkuIsPaddedIndex(text, k) ==
    /\ Len(text) = 8
    /\ SubSeq(text, 1, 4) = "PROT"
    /\ \A p \in 5..8 : Char(text, p) \in Digits
    /\ 1000 * DigitValue(Char(text, 5)) + 100 * DigitValue(Char(text, 6))
         + 10 * DigitValue(Char(text, 7)) + DigitValue(Char(text, 8)) = k

(***************************************************************************)
(* C4: every record's sku is "PROT" followed by exactly 4 digits that are  *)
(* the zero-padded record index; no two records share a sku; and the k-th  *)
(* data row of the file has the sku of index k (the 5th has "PROT0005").   *)
(***************************************************************************)
C4_SkuIsPaddedIndexInOrder ==
    /\ \A k \in 1..Len(products) : SkuIsPaddedIndex(products[k].sku.str, k)
    /\ pc = "write" =>
          \A j, k \in 1..Len(products) :
              j # k => products[j].sku.str # products[k].sku.str
    /\ FileWritten =>
          /\ \A k \in 1..N :
                SkuIsPaddedIndex(CsvField(disk.lines[k + 1], ColumnOf("sku")), k)
          /\ CsvField(disk.lines[6], ColumnOf("sku")) = "PROT0005"

C4_Witness ==
    /\ pc = "done"
    /\ CsvField(disk.lines[6], 18) = "PROT0005"
    /\ CsvField(disk.lines[43], 18) = "PROT0042"
    /\ CsvField(disk.lines[401], 18) = "PROT0400"

(***************************************************************************)
(* C5: every record's price is an integer of 999..4999, its originalPrice  *)
(* is price plus an integer of 200..1000, hence lies in 1199..5999, and is *)
(* strictly greater than price.                                            *)
(***************************************************************************)
C5_PriceRanges ==
    \A k \in 1..Len(products) :
        LET row == products[k]
        IN  /\ IsInt(row.price) /\ IsInt(row.originalPrice)
            /\ row.price.int \in 999..4999
            /\ (row.originalPrice.int - row.price.int) \in 200..1000
            /\ row.originalPrice.int \in 1199..5999
            /\ row.originalPrice.int > row.price.int

\* A run whose draws come near both ends of both ranges.
C5_Witness ==
    /\ pc = "write"
    /\ \E k \in 1..N : products[k].price.int < 1100
    /\ \E k \in 1..N : products[k].price.int > 4900
    /\ \E k \in 1..N : products[k].originalPrice.int - products[k].price.int < 220
    /\ \E k \in 1..N : products[k].originalPrice.int - products[k].price.int > 980

(***************************************************************************)
(* C6, as stated: category, subcategory, tags, features, ingredients,      *)
(* material, color, careInstructions, keywords, minOrderQuantity and spf   *)
(* each have the same value in all records, whatever the draws.            *)
(***************************************************************************)
C6_ElevenFieldsConstant ==
    \A k \in 1..Len(products) :
        \A f \in {"category", "subcategory", "tags", "features", "ingredients",
                  "material", "color", "careInstructions", "keywords",
                  "minOrderQuantity", "spf"} :
            products[k][f] = products[1][f]

(***************************************************************************)
(* C6, amended: category, subcategory, tags, ingredients, material, color, *)
(* careInstructions, keywords, minOrderQuantity and spf each have the same *)
(* value in all records, whatever the draws; category is always            *)
(* "Proteins" and spf always the empty string.  features is not among      *)
(* them: it ends with the record's sampled flavor.                         *)
(***************************************************************************)
C6_TenFieldsConstant ==
    \A k \in 1..Len(products) :
        /\ \A f \in {"category", "subcategory", "tags", "ingredients",
                     "material", "color", "careInstructions", "keywords",
                     "minOrderQuantity", "spf"} :
              products[k][f] = products[1][f]
        /\ products[k].category = PyStr("Proteins")
        /\ products[k].spf = PyStr("")
        /\ products[k].minOrderQuantity = PyInt(1)
        /\ products[k].features.str =
              "Supports muscle growth,Boosts recovery,High Protein content,"
                \o products[k].scent.str \o " flavor"

C6_Witness ==
    /\ pc = "write"
    /\ Len(products) = N
    /\ \E j, k \in 1..N : products[j].features # products[k].features
    /\ \E j, k \in 1..N : products[j].brand # products[k].brand
                          /\ products[j].tags = products[k].tags

(***************************************************************************)
(* C7: in every record each of allergens, skinType and hairType is present *)
(* and is either the empty string or a member of its own candidate list;   *)
(* the three are decided by separate coin flips, so each of the 8          *)
(* combinations of empty and filled occurs.                                *)
(***************************************************************************)
C7_OptionalFields ==
    \A k \in 1..Len(products) :
        LET row == products[k]
        IN  /\ {"allergens", "skinType", "hairType"} \subseteq DOMAIN row
            /\ IsStr(row.allergens) /\ IsStr(row.skinType) /\ IsStr(row.hairType)
            /\ row.allergens.str \in {""} \cup Range(allergens)
            /\ row.skinType.str \in {""} \cup Range(skin_types)
            /\ row.hairType.str \in {""} \cup Range(hair_types)

C7_Witness ==
    /\ pc = "write"
    /\ \A a, s, h \in BOOLEAN :
          \E k \in 1..N :
              /\ (products[k].allergens.str = "") = a
              /\ (products[k].skinType.str = "") = s
              /\ (products[k].hairType.str = "") = h

Contains(text, part) ==
    \E p \in 1..(Len(text) - Len(part) + 1) : SubSeq(text, p, p + Len(part) - 1) = part

EndsWith(text, part) ==
    Len(text) >= Len(part) /\ SubSeq(text, Len(text) - Len(part) + 1, Len(text)) = part

\* The preview: a header line and 3 lines, the k-th showing the five chosen
\* fields of the file's k-th record and not its other fields.
PreviewShowsFirstThree(text) ==
    LET lines == SplitLines(text)
        field(k, name) == CsvField(disk.lines[k + 1], ColumnOf(name))
    IN  /\ Len(lines) = 4
        /\ \A c \in 1..Len(PreviewColumns) : Contains(lines[1], PreviewColumns[c])
        /\ EndsWith(lines[1], " brand")
        /\ \A k \in 1..3 :
              /\ Len(lines[k + 1]) = Len(lines[1])
              /\ SubSeq(lines[k + 1], 1, 20) = field(k, "name")
              /\ Contains(lines[k + 1], " Proteins ")
              /\ Contains(lines[k + 1], " " \o field(k, "images") \o " ")
              /\ Contains(lines[k + 1], " " \o field(k, "price") \o " ")
              /\ EndsWith(lines[k + 1], " " \o field(k, "brand"))
              /\ ~Contains(lines[k + 1], field(k, "sku"))
              /\ ~Contains(lines[k + 1], field(k, "barcode"))

\* What has been printed, and the file it was printed after.
C8_SummaryAfterWrite ==
    /\ stdout # <<>> =>
          /\ pc \in {"report", "done", "aborted"}
          /\ disk.exists /\ pending = <<>>
          /\ Len(disk.lines) = N + 1
          /\ disk.lines[1] = DeclaredHeader
    /\ Len(stdout) >= 2 => stdout[2] = "Total products: 400"
    /\ Len(stdout) >= 3 => stdout[3] = "All 40 CSV columns included"
    /\ Len(stdout) >= NPrints => PreviewShowsFirstThree(stdout[NPrints])
    /\ pc = "done" => Len(stdout) = NPrints

\* What a step of the script may do to the output and the file.
C8_ReportStep ==
    \* no step is taken once the process has ended: nothing is retried
    /\ pc \notin {"aborted", "done"}
    \* a failed write prints nothing
    /\ (pc \in {"write", "writing"} /\ pc' = "aborted") => stdout' = <<>>
    \* printing happens in the report, one line at a time
    /\ stdout' # stdout => pc = "report" /\ Len(stdout') = Len(stdout) + 1
    \* the report, failed or not, leaves the file as written
    /\ pc = "report" => disk' = disk

(***************************************************************************)
(* C8: the summary (record count, column count, preview of the first 3     *)
(* records restricted to name, category, images, price, brand) is printed  *)
(* only after the file write has completed; a failed write ends the        *)
(* process with nothing printed and no retry; and nothing that happens     *)
(* while reporting changes the written file.                               *)
(***************************************************************************)
C8_SummaryOnlyAfterWrite == []C8_SummaryAfterWrite /\ [][C8_ReportStep]_vars

\* A print statement has failed after part of the summary was printed, and
\* the complete file is on disk.
C8_Witness ==
    /\ pc = "aborted"
    /\ Len(stdout) = 3
    /\ Len(disk.lines) = N + 1

(***************************************************************************)
(* C9: within each record one flavor draw and one brand draw are used      *)
(* everywhere: scent is the flavor that description, features, metaTitle   *)
(* and metaDescription embed; brand is the brand that metaTitle and        *)
(* metaDescription embed; and the index embedded in name, description,     *)
(* metaTitle and metaDescription is the index of sku.                      *)
(***************************************************************************)
C9_OneFlavorOneBrandOneIndex ==
    \A k \in 1..Len(products) :
        LET row == products[k]
            fl == row.scent.str
            br == row.brand.str
            n == Str(k)
        IN  /\ fl \in Range(flavors)
            /\ br \in Range(brands)
            /\ SkuIsPaddedIndex(row.sku.str, k)
            /\ row.name.str = "Protein Supplement " \o n
            /\ row.description.str =
                  "High-quality Protein supplement " \o n
                    \o " ideal for muscle growth and recovery. " \o fl
                    \o " flavor for gym and fitness enthusiasts."
            /\ row.features.str =
                  "Supports muscle growth,Boosts recovery,High Protein content," \o fl \o " flavor"
            /\ row.metaTitle.str = br \o " Protein Supplement " \o n \o " - " \o fl
            /\ row.metaDescription.str =
                  "Buy " \o br \o " " \o fl \o " Protein supplement " \o n
                    \o " - premium protein for strength, muscle growth, and fitness."

\* A run in which every flavor and every brand was drawn.
C9_Witness ==
    /\ pc = "write"
    /\ \A f \in Range(flavors) : \E k \in 1..N : products[k].scent.str = f
    /\ \A b \in Range(brands) : \E k \in 1..N : products[k].brand.str = b

(***************************************************************************)
(* C10: the keys of every generated row are exactly the names of the       *)
(* declared column list: the table built from the rows has no cell filled  *)
(* with the missing-value placeholder, and no generated field is left out  *)
(* of it.                                                                  *)
(***************************************************************************)
C10_RowKeysAreDeclaredColumns ==
    /\ \A k \in 1..Len(products) : DOMAIN products[k] = Range(all_columns)
    /\ pc = "write" =>
          /\ Len(df.data) = Len(products)
          /\ \A k \in 1..Len(df.data) :
                /\ Len(df.data[k]) = Cardinality(DOMAIN products[k])
                /\ \A c \in 1..Len(df.columns) :
                      /\ ~IsNaN(df.data[k][c])
                      /\ df.data[k][c] = products[k][df.columns[c]]

C10_Witness ==
    /\ pc = "write"
    /\ Len(df.data) = N
    /\ Len(df.data[N]) = Len(all_columns)
    /\ df.data[N][ColumnOf("spf")] = PyStr("")
=============================================================================
